---------------------------- MODULE Spec2Model ----------------------------
(***************************************************************************)
(* pulp_rpm: the yum importer's download listener                          *)
(* (plugins/importers/yum/listener.py) and the sync / publish actions of   *)
(* the REST viewsets (pulp_rpm/app/viewsets.py).                           *)
(*                                                                         *)
(* Spec      the listener driven by a downloader's events                  *)
(* SpecView  the viewsets driven by HTTP requests and a task worker        *)
(***************************************************************************)
EXTENDS Integers, Sequences, FiniteSets, Bags, TLC

\* ------------------------------------------------------------------ bounds
NumPackages == 2     \* package names 1..NumPackages
NumDest     == 2     \* download destinations in the working directory
MaxSize     == 2     \* values of the one metadata field, 1..MaxSize
NumErrors   == 1     \* distinct error reports of a failed download
NumRepos    == 2     \* repositories 1..NumRepos
MaxVersions == 2     \* versions a repository gets at most
MaxQueue    == 2     \* tasks waiting for the worker at most

VARIABLES
    files,      \* the file system: path -> NoFile or Package
    units,      \* the units the sync conduit has saved: a bag of units
    calls,      \* the collaborator calls of the latest listener call, in order
    last,       \* the latest listener call: event, report, what it raised
    \* ---- viewsets
    versions,   \* repository -> number of (complete) repository versions
    queue,      \* the tasks enqueued and not yet run, oldest first
    response    \* the latest request: what was asked, what came of it

lvars == <<files, units, calls, last>>
vvars == <<versions, queue, response>>
vars  == <<files, units, calls, last, versions, queue, response>>

\* what a path holds: no file, or a package file
NoFile  == "nofile"
Package == "package file"
None   == "none"

\* ------------------------------------------------------------------ data
Names        == 1..NumPackages
Destinations == {<<"tmp", i>> : i \in 1..NumDest}
\* report.data: the package info one download request carries
PackageInfos == [name : Names, size : 1..MaxSize]
\* a DownloadReport as the listener reads it: data, destination, error_report
SuccessReports == [data : PackageInfos, destination : Destinations,
                   error_report : {None}]
FailureReports == [data : PackageInfos, destination : Destinations,
                   error_report : 1..NumErrors]

\* models.from_package_info: the model of one package; its unit key is the
\* identity part of the package info, its metadata the rest, its relative
\* path is built from the identity.
from_package_info(data) ==
    [TYPE          |-> "rpm",
     unit_key      |-> [name |-> data.name],
     metadata      |-> [size |-> data.size],
     relative_path |-> <<data.name, "rpm">>]

\* the conduit's storage path of a relative path: below the content storage,
\* which is not the working directory the downloads land in
StoragePath(relative_path) == <<"content", relative_path>>

StoragePaths == {StoragePath(from_package_info(d).relative_path) : d \in PackageInfos}
Paths        == Destinations \cup StoragePaths

\* sync_conduit.init_unit: builds the unit of a key in memory; it creates
\* nothing in the conduit's store, however often it is called.
init_unit(type_id, unit_key, metadata, relative_path) ==
    [type_id      |-> type_id,
     unit_key     |-> unit_key,
     metadata     |-> metadata,
     storage_path |-> StoragePath(relative_path)]

\* two units are the same unit: same type, same unit key
SameUnit(u, v) == u.type_id = v.type_id /\ u.unit_key = v.unit_key

\* sync_conduit.save_unit, as a bug would have it: always a new unit
save_unit_add(us, unit) == us (+) SetToBag({unit})

\* sync_conduit.save_unit: a unit of that type and key already stored is
\* updated, otherwise the unit is added.
save_unit(us, unit) ==
    LET old == {u \in BagToSet(us) : SameUnit(u, unit)}
    IN  IF old = {} THEN us (+) SetToBag({unit})
        ELSE (us (-) SetToBag({CHOOSE u \in old : TRUE})) (+) SetToBag({unit})

\* shutil.move(src, dst) of a regular file onto a path that is no directory.
\*   "renamed"   os.rename succeeded: dst has the file, src is gone
\*   "failed"    rename and the copy fallback failed: nothing changed
\*   "unlinked"  copied to dst, but os.unlink(src) failed: src is still there
MoveOutcomes == {"renamed", "failed", "unlinked"}

move(fs, src, dst, outcome) ==
    IF fs[src] = NoFile \/ outcome = "failed" THEN fs
    ELSE IF outcome = "unlinked" THEN [fs EXCEPT ![dst] = fs[src]]
    ELSE [fs EXCEPT ![dst] = fs[src], ![src] = NoFile]

\* whether shutil.move raises: no source file, or a failed rename/copy/unlink
move_raises(fs, src, outcome) == fs[src] = NoFile \/ outcome # "renamed"


\* ------------------------------------------------------------ the listener
\* One listener call in progress: the file system and the conduit's store as
\* the call has changed them so far, the calls made, the unit init_unit
\* returned, what save_unit did with it ("added" or "updated"), and the
\* collaborator that raised (None while none has).
Begin(fs, us) ==
    [files |-> fs, units |-> us, calls |-> <<>>, unit |-> None, saved |-> None,
     raised |-> None]

\* what save_unit does with a unit: update the stored one, or add it
Saving(us, unit) ==
    IF \E u \in BagToSet(us) : SameUnit(u, unit) THEN "updated" ELSE "added"

Call(op, args) == [op |-> op, args |-> args]

\* the collaborator that is made to raise during download_succeeded
Faults == {None, "init_unit", "save_unit", "success_callback"}

\* line 40: unit = self.sync_conduit.init_unit(TYPE, unit_key, metadata, relative_path)
StepInit(s, model, fault) ==
    LET c == Call("init_unit", <<model.TYPE, model.unit_key, model.metadata,
                                 model.relative_path>>)
    IN  IF s.raised # None THEN s
        ELSE IF fault = "init_unit"
        THEN [s EXCEPT !.calls = Append(@, c), !.raised = "init_unit"]
        ELSE [s EXCEPT !.calls = Append(@, c),
                       !.unit  = init_unit(model.TYPE, model.unit_key,
                                           model.metadata, model.relative_path)]

\* a copy in place of the move: the download stays where it was
StepMove_copy(s, report, outcome) ==
    IF s.raised # None THEN s
    ELSE [s EXCEPT
            !.calls  = Append(@, Call("move", <<report.destination, s.unit.storage_path>>)),
            !.files  = move(s.files, report.destination, s.unit.storage_path,
                            IF outcome = "renamed" THEN "unlinked" ELSE outcome),
            !.raised = IF move_raises(s.files, report.destination, outcome)
                       THEN "move" ELSE None]

\* a move whose exception is swallowed
StepMove_swallow(s, report, outcome) ==
    IF s.raised # None THEN s
    ELSE [s EXCEPT
            !.calls = Append(@, Call("move", <<report.destination, s.unit.storage_path>>)),
            !.files = move(s.files, report.destination, s.unit.storage_path, outcome)]

\* line 42: shutil.move(report.destination, unit.storage_path)
StepMove(s, report, outcome) ==
    IF s.raised # None THEN s
    ELSE [s EXCEPT
            !.calls  = Append(@, Call("move", <<report.destination, s.unit.storage_path>>)),
            !.files  = move(s.files, report.destination, s.unit.storage_path, outcome),
            !.raised = IF move_raises(s.files, report.destination, outcome)
                       THEN "move" ELSE None]

\* the save left out
StepSave_skip(s, fault) == s

\* a save that, when it fails, puts the file back where the move found it
StepSave_rollback(s, fault) ==
    IF s.raised # None THEN s
    ELSE IF fault = "save_unit"
    THEN LET mv == s.calls[Len(s.calls)].args
         IN  [s EXCEPT !.calls  = Append(@, Call("save_unit", <<s.unit>>)),
                       !.files  = move(s.files, mv[2], mv[1], "renamed"),
                       !.raised = "save_unit"]
    ELSE [s EXCEPT !.calls = Append(@, Call("save_unit", <<s.unit>>)),
                   !.saved = Saving(s.units, s.unit),
                   !.units = save_unit(s.units, s.unit)]

\* line 44: self.sync_conduit.save_unit(unit)
StepSave(s, fault) ==
    IF s.raised # None THEN s
    ELSE IF fault = "save_unit"
    THEN [s EXCEPT !.calls  = Append(@, Call("save_unit", <<s.unit>>)),
                   !.raised = "save_unit"]
    ELSE [s EXCEPT !.calls = Append(@, Call("save_unit", <<s.unit>>)),
                   !.saved = Saving(s.units, s.unit),
                   !.units = save_unit(s.units, s.unit)]

\* the callback given the conduit's unit instead of the model
StepSuccess_unit(s, model, fault) ==
    IF s.raised # None THEN s
    ELSE [s EXCEPT !.calls  = Append(@, Call("success_callback", <<s.unit>>)),
                   !.raised = IF fault = "success_callback"
                              THEN "success_callback" ELSE None]

\* line 45: self.success_callback(model)
StepSuccess(s, model, fault) ==
    IF s.raised # None THEN s
    ELSE [s EXCEPT !.calls  = Append(@, Call("success_callback", <<model>>)),
                   !.raised = IF fault = "success_callback"
                              THEN "success_callback" ELSE None]

\* Listener.download_succeeded, lines 38-45, from its first line to its
\* return or to the exception that leaves it
RunSucceeded(fs, us, report, fault, outcome) ==
    LET model == from_package_info(report.data)
        s1 == StepInit(Begin(fs, us), model, fault)
        s2 == StepMove(s1, report, outcome)
        s3 == StepSave(s2, fault)
    IN  StepSuccess(s3, model, fault)

\* the failure callback may raise
FailFaults == {None, "failure_callback"}

\* a download_failed that raises the download error itself
RunFailed_raise(fs, us, report, fault) ==
    [Begin(fs, us) EXCEPT !.raised = "download_error"]

\* a download_failed that registers the unit all the same
RunFailed_persist(fs, us, report, fault) ==
    LET model == from_package_info(report.data)
        s1 == StepInit(Begin(fs, us), model, None)
        s2 == StepSave(StepMove_swallow(s1, report, "renamed"), None)
    IN  [s2 EXCEPT !.calls  = Append(@, Call("failure_callback",
                                             <<model, report.error_report>>)),
                   !.raised = IF fault = "failure_callback"
                              THEN "failure_callback" ELSE None]

\* Listener.download_failed, lines 54-55
RunFailed(fs, us, report, fault) ==
    LET model == from_package_info(report.data)
    IN  [Begin(fs, us) EXCEPT
            !.calls  = Append(@, Call("failure_callback",
                                      <<model, report.error_report>>)),
            !.raised = IF fault = "failure_callback"
                       THEN "failure_callback" ELSE None]

\* the downloader's dispatch loop is between two events
Idle == last.event = None

\* the downloader has fetched a package file to a destination
Download(dest) ==
    /\ Idle
    /\ files' = [files EXCEPT ![dest] = Package]
    /\ UNCHANGED <<units, calls, last>>
    /\ UNCHANGED vvars

download_succeeded(report, fault, outcome) ==
    /\ Idle
    /\ \E r \in {RunSucceeded(files, units, report, fault, outcome)} :
        /\ files' = r.files
        /\ units' = r.units
        /\ calls' = r.calls
        /\ last'  = [event |-> "download_succeeded", report |-> report,
                     fault |-> fault, outcome |-> outcome,
                     unit |-> r.unit, saved |-> r.saved, raised |-> r.raised]
    /\ UNCHANGED vvars

download_failed(report, fault) ==
    /\ Idle
    /\ \E r \in {RunFailed(files, units, report, fault)} :
        /\ files' = r.files
        /\ units' = r.units
        /\ calls' = r.calls
        /\ last'  = [event |-> "download_failed", report |-> report,
                     fault |-> fault, outcome |-> None,
                     unit |-> r.unit, saved |-> r.saved, raised |-> r.raised]
    /\ UNCHANGED vvars

NoCall == [event |-> None, report |-> None, fault |-> None, outcome |-> None,
           unit |-> None, saved |-> None, raised |-> None]

\* the listener call is over (it returned or raised): the downloader's
\* dispatch loop goes on to its next event
Dispatched ==
    /\ ~Idle
    /\ calls' = <<>>
    /\ last'  = NoCall
    /\ UNCHANGED <<files, units>>
    /\ UNCHANGED vvars


\* ------------------------------------------------------------ the viewsets
\* a value that may be missing (Python's None): the empty set, or {value}
Nothing == {}
Some(x) == {x}
The(opt) == CHOOSE x \in opt : TRUE
Optional(S) == {Nothing} \cup {Some(x) : x \in S}

Repos      == 1..NumRepos
Remotes    == {"remote-1"}
Publishers == {"publisher-1"}
\* a repository version: <<repository, number>>
AllVersions == Repos \X (1..MaxVersions)
Exists(version) == version[2] <= versions[version[1]]

\* request.data of the two actions; a field may be left out
SyncData    == [repository : Optional(Repos)]
PublishData == [repository : Optional(Repos),
                repository_version : Optional(AllVersions)]

\* RepositorySyncURLSerializer.is_valid: the repository is required
SyncValid(data) == data.repository # Nothing

\* RepositoryPublishURLSerializer.is_valid: a version or a repository is
\* given, and a version that is given exists
PublishValid(data) ==
    /\ data.repository # Nothing \/ data.repository_version # Nothing
    /\ data.repository_version # Nothing => Exists(The(data.repository_version))

\* RepositoryVersion.latest(repository): the latest version of the
\* repository, None when it has none
latest(repository) ==
    IF versions[repository] = 0 THEN Nothing
    ELSE Some(<<repository, versions[repository]>>)

Task(func, resources, kwargs) ==
    [func |-> func, resources |-> resources, kwargs |-> kwargs]

Response(view, data, valid, status, version, task) ==
    [view |-> view, data |-> data, valid |-> valid, status |-> status,
     version |-> version, task |-> task]

NoResponse == Response(None, Nothing, FALSE, "", Nothing, Nothing)

\* RpmRemoteViewSet.sync, lines 87-103
sync(remote, data) ==
    /\ Len(queue) < MaxQueue
    /\ IF ~SyncValid(data)
       THEN \* line 92: is_valid(raise_exception=True) raises ValidationError
            /\ response' = Response("sync", data, FALSE, "400", Nothing, Nothing)
            /\ UNCHANGED queue
       ELSE LET repository == The(data.repository)
                result == Task("synchronize",
                               <<<<"repository", repository>>, <<"remote", remote>>>>,
                               <<<<"remote_pk", remote>>, <<"repository_pk", repository>>>>)
            IN  /\ queue' = Append(queue, result)
                /\ response' = Response("sync", data, TRUE, "202", Nothing, Some(result))
    /\ UNCHANGED versions
    /\ UNCHANGED lvars

\* RpmPublisherViewSet.publish, lines 124-145
publish(publisher, data) ==
    /\ Len(queue) < MaxQueue
    /\ IF ~PublishValid(data)
       THEN \* line 129: is_valid(raise_exception=True) raises ValidationError
            /\ response' = Response("publish", data, FALSE, "400", Nothing, Nothing)
            /\ UNCHANGED queue
       ELSE LET repository_version ==
                    IF data.repository_version # Nothing
                    THEN data.repository_version
                    ELSE latest(The(data.repository))
            IN  IF repository_version = Nothing
                THEN \* line 139: None.repository raises AttributeError
                     /\ response' = Response("publish", data, TRUE, "500",
                                             Nothing, Nothing)
                     /\ UNCHANGED queue
                ELSE LET v == The(repository_version)
                         result == Task("publish",
                                        <<<<"repository", v[1]>>, <<"publisher", publisher>>>>,
                                        <<<<"publisher_pk", publisher>>,
                                          <<"repository_version_pk", v>>>>)
                     IN  /\ queue' = Append(queue, result)
                         /\ response' = Response("publish", data, TRUE, "202",
                                                 repository_version, Some(result))
    /\ UNCHANGED versions
    /\ UNCHANGED lvars

\* the worker runs the oldest task: a synchronize gives its repository a new
\* version, a publish leaves the repositories as they are
RunTask ==
    /\ queue # <<>>
    /\ LET t == Head(queue)
           repository == t.resources[1][2]
       IN  versions' = IF t.func = "synchronize" /\ versions[repository] < MaxVersions
                       THEN [versions EXCEPT ![repository] = @ + 1]
                       ELSE versions
    /\ queue' = Tail(queue)
    /\ UNCHANGED response
    /\ UNCHANGED lvars

\* ---------------------------------------------------------- specifications
\* Listener.__init__ with a conduit that has saved no unit and an empty
\* working directory; repositories just created, no task enqueued
Init ==
    /\ files = [p \in Paths |-> NoFile]
    /\ units = EmptyBag
    /\ calls = <<>>
    /\ last  = NoCall
    /\ versions = [r \in Repos |-> 0]
    /\ queue = <<>>
    /\ response = NoResponse

Downloads == \E d \in Destinations : Download(d)
Succeeded == \E r \in SuccessReports, f \in Faults, o \in MoveOutcomes :
                (o # "renamed" => f = None) /\ download_succeeded(r, f, o)
Failed    == \E r \in FailureReports, f \in FailFaults : download_failed(r, f)

Next == Downloads \/ Succeeded \/ Failed \/ Dispatched

Spec == Init /\ [][Next]_vars

Syncs     == \E m \in Remotes, d \in SyncData : sync(m, d)
Publishes == \E p \in Publishers, d \in PublishData : publish(p, d)

NextView == Syncs \/ Publishes \/ RunTask

SpecView == Init /\ [][NextView]_vars

\* ------------------------------------------------------------- properties
\* the operations of a call log, in order
Ops(cs) == [i \in 1..Len(cs) |-> cs[i].op]
IsConduitOrCallback(op) ==
    op \in {"init_unit", "save_unit", "success_callback", "failure_callback"}
\* the calls of an operation in a call log
CallsOf(cs, op) == SelectSeq(cs, LAMBDA c : c.op = op)
Called(cs, op) == \E i \in 1..Len(cs) : cs[i].op = op

SucceededCall == last.event = "download_succeeded"
FailedCall    == last.event = "download_failed"

\* C1: a download_succeeded call in which no collaborator raises calls
\* init_unit, then save_unit, then success_callback, in that order, each
\* exactly once, and never failure_callback.
C1_CallOrder ==
    SucceededCall /\ last.raised = None =>
        SelectSeq(Ops(calls), IsConduitOrCallback)
            = <<"init_unit", "save_unit", "success_callback">>

C1_Witness ==
    SucceededCall /\ last.raised = None /\ Len(calls) > 0

\* C2: a download_succeeded call that completes without error leaves the
\* file that was at report.destination at the storage_path of the unit
\* init_unit returned, which is the path the move was given as its target
\* and the unit save_unit was given, and leaves no file at report.destination.
C2_FileAtStoragePath ==
    [][Idle /\ last'.event = "download_succeeded" /\ last'.raised = None =>
        /\ files[last'.report.destination] # NoFile
        /\ files'[last'.unit.storage_path] = files[last'.report.destination]
        /\ files'[last'.report.destination] = NoFile
        /\ Ops(CallsOf(calls', "move")) = <<"move">>
        /\ CallsOf(calls', "move")[1].args
             = <<last'.report.destination, last'.unit.storage_path>>
        /\ Ops(CallsOf(calls', "save_unit")) = <<"save_unit">>
        /\ CallsOf(calls', "save_unit")[1].args = <<last'.unit>>
      ]_vars

C2_Witness ==
    /\ SucceededCall /\ last.raised = None
    /\ files[last.unit.storage_path] # NoFile
    /\ files[last.report.destination] = NoFile

\* C3: download_failed never calls init_unit or save_unit and never moves a
\* file: the units the conduit holds and the files are as before the call.
C3_FailedPersistsNothing ==
    [][Idle /\ last'.event = "download_failed" =>
        /\ files' = files
        /\ units' = units
        /\ ~Called(calls', "init_unit")
        /\ ~Called(calls', "save_unit")
        /\ ~Called(calls', "move")
      ]_vars

C3_Witness ==
    /\ FailedCall
    /\ files[last.report.destination] # NoFile
    /\ units # EmptyBag

\* C4: the model a callback is given is the one derived from the report's
\* data, its identity fields are those of report.data, and on the success
\* path it is the model whose TYPE, unit_key, metadata and relative_path
\* init_unit was given.
C4_CallbackModel ==
    /\ SucceededCall \/ FailedCall =>
        \A i \in 1..Len(calls) :
            calls[i].op \in {"success_callback", "failure_callback"} =>
                /\ calls[i].args[1] = from_package_info(last.report.data)
                /\ calls[i].args[1].unit_key.name = last.report.data.name
    /\ SucceededCall /\ Called(calls, "success_callback") =>
        LET model == CallsOf(calls, "success_callback")[1].args[1]
        IN  /\ Called(calls, "init_unit")
            /\ CallsOf(calls, "init_unit")[1].args
                 = <<model.TYPE, model.unit_key, model.metadata, model.relative_path>>

C4_Witness ==
    SucceededCall /\ Called(calls, "success_callback") /\ last.raised = None

\* C5: the conduit holds at most one unit per unit key, whatever events
\* came, and an event for a key already registered adds no unit.
C5_OneUnitPerKey ==
    /\ \A u \in BagToSet(units) :
        /\ units[u] = 1
        /\ \A v \in BagToSet(units) : SameUnit(u, v) => u = v
    /\ SucceededCall /\ last.saved = "updated" =>
        \E u \in BagToSet(units) : u = last.unit

C5_Witness ==
    SucceededCall /\ last.saved = "updated" /\ last.raised = None

\* C6: when save_unit raises in download_succeeded the file has been moved
\* to unit.storage_path and is not put back at report.destination,
\* success_callback is not called, and the exception reaches the caller.
C6_NoRollback ==
    [][Idle /\ last'.event = "download_succeeded" /\ last'.fault = "save_unit"
            /\ Called(calls', "save_unit") =>
        /\ last'.raised = "save_unit"
        /\ files[last'.report.destination] # NoFile
        /\ files'[last'.unit.storage_path] = files[last'.report.destination]
        /\ files'[last'.report.destination] = NoFile
        /\ ~Called(calls', "success_callback")
      ]_vars

C6_Witness ==
    /\ SucceededCall /\ last.raised = "save_unit"
    /\ files[last.unit.storage_path] # NoFile

\* C7: download_failed does not raise the download error: it calls
\* failure_callback exactly once, with the derived model and
\* report.error_report, never success_callback, and returns normally when
\* the callback does.
C7_FailureReported ==
    FailedCall =>
        /\ Ops(calls) = <<"failure_callback">>
        /\ calls[1].args = <<from_package_info(last.report.data),
                             last.report.error_report>>
        /\ last.raised \in {None, "failure_callback"}
        /\ last.fault = None => last.raised = None

C7_Witness ==
    FailedCall /\ last.fault = None /\ last.raised = None /\ Len(calls) = 1

\* C8: when the move raises in download_succeeded the exception reaches the
\* caller, neither save_unit nor success_callback is called, init_unit has
\* been called, no unit is saved, and report.destination is as it was.
C8_MoveRaises ==
    [][Idle /\ last'.event = "download_succeeded" /\ Called(calls', "move")
            /\ move_raises(files, last'.report.destination, last'.outcome) =>
        /\ last'.raised = "move"
        /\ ~Called(calls', "save_unit")
        /\ ~Called(calls', "success_callback")
        /\ Ops(calls') = <<"init_unit", "move">>
        /\ units' = units
        /\ files'[last'.report.destination] = files[last'.report.destination]
      ]_vars

C8_Witness ==
    /\ SucceededCall /\ last.raised = "move"
    /\ files[last.report.destination] # NoFile

\* C9: in publish, once validation has passed, the repository version the
\* task is enqueued with is defined (the one supplied, else the latest of
\* the repository supplied), also for a repository without a version.
C9_VersionDefined ==
    [][response'.view = "publish" /\ Publishes /\ response'.valid =>
        /\ response'.version # Nothing
        /\ response'.status = "202"
        /\ response'.version =
             IF response'.data.repository_version # Nothing
             THEN response'.data.repository_version
             ELSE latest(The(response'.data.repository))
      ]_vars

\* C10: a request whose validation passes enqueues exactly one task and
\* answers with its handle; one whose validation fails enqueues none.
C10_OneTaskPerRequest ==
    [][\/ response'.view = "sync" /\ Syncs
       \/ response'.view = "publish" /\ Publishes
       =>
        IF response'.valid
        THEN /\ response'.task # Nothing
             /\ response'.status = "202"
             /\ queue' = Append(queue, The(response'.task))
        ELSE /\ response'.task = Nothing
             /\ queue' = queue
      ]_vars

=============================================================================
